---- MODULE Spec2Model ----
(***************************************************************************)
(* Booking payment reconciliation of Staywise_Backend:                     *)
(*   src/routes/payments.js  - the Stripe webhook route, its three event   *)
(*                             handlers, POST /create-payment-intent and   *)
(*                             the paymentGateway helpers (lines 420-553). *)
(* The database is the table booking_requests (joined with properties),    *)
(* the table notifications, and the processor's set of payment intents.    *)
(* Every `await query(...)` of a webhook handler is one step of the worker *)
(* that runs the request, so concurrent deliveries interleave exactly at   *)
(* the points where Node.js can switch between requests.                   *)
(* The variable response holds the HTTP response a step sends, together    *)
(* with the facts about the request that the properties read; the step     *)
(* ResponseSent hands it to the client before the next request step runs.  *)
(* The listing routes are modelled beside it, each under a specification   *)
(* of its own:                                                             *)
(*   src/routes/properties.js       - PUT, DELETE and PATCH of a property  *)
(*   src/routes/admin.js            - the admin's approve and reject       *)
(*   src/routes/userInteractions.js - favorites and ratings                *)
(* over the tables all_properties, property_details and user_interactions. *)
(***************************************************************************)
EXTENDS Integers, Sequences, FiniteSets, TLC

(* ------------------------------ bounds -------------------------------- *)
\* booking rows in booking_requests
NumBookings == 2
\* payment intents the processor creates for this application
MaxIntents == 2
\* deliveries the processor makes (a redelivery of an event counts again)
MaxDeliveries == 2
\* last value of the database clock NOW()
MaxTime == 2
\* webhook requests that can be in flight at the same time
NumWorkers == 2
\* rows of all_properties, each inserted with its row of property_details
NumProperties == 2
\* listing requests (approve, reject, favorite, rating) in flight together
NumRequests == 2
\* rows that user_interactions can hold
MaxInteractions == 3

(* ------------------------------ constants ----------------------------- *)
BookingIds == 1..NumBookings
Workers == 1..NumWorkers
\* a booking id that no row of booking_requests has
MissingBooking == 99
\* metadata without booking_id / a NULL column
NoBooking == 0
NoIntent == 0
NULL == 0
NoError == "none"

\* users: the renter of booking b is user b; one user owns every property
OwnerUser == 50
\* a user whose role is admin
AdminUser == 60

PropertyIds == 1..NumProperties
Requests == 1..NumRequests
\* a property id that no row of all_properties has
MissingProperty == 98

\* req.user.role as the auth middleware sets it from the users table
Role(user) ==
  IF user = AdminUser THEN "admin"
  ELSE IF user = OwnerUser THEN "propertyowner" ELSE "user"

EventTypes ==
  {"payment_intent.succeeded", "payment_intent.payment_failed",
   "payment_intent.canceled", "payment_intent.created"}
\* a switch with a case for every event type
EveryTypeTracked == EventTypes

\* the event types the webhook's switch has a case for
TrackedTypes ==
  {"payment_intent.succeeded", "payment_intent.payment_failed",
   "payment_intent.canceled"}

\* process.env.STRIPE_WEBHOOK_SECRET and a key the processor does not hold
EndpointSecret == "whsec_endpoint"
OtherSecret == "whsec_other"
NoSignature == <<>>

\* an intent of the processor account that this application did not create:
\* its metadata has no booking_id
ForeignIntent == 101
ForeignIntents == {ForeignIntent}

\* last_payment_error.message of a payment_failed event
CardDeclined == "Your card was declined."

\* request amounts of create-payment-intent, in halves of a minor unit so that
\* a non-integer amount can be sent: -2 is -1, 9999 is 4999.5, 10000 is 5000
AmountsHalf == {-2, 0, 9999, 10000}

\* what can go wrong while a request is served: the store rejects the query,
\* or stripe.paymentIntents.create throws (bad key, no connection, timeout)
StripeFaults == {"invalid_api_key", "unreachable", "timeout"}
Faults == {"none", "db"} \cup StripeFaults

VARIABLES
  bookings,       \* booking_requests: id -> row
  notifications,  \* notifications: sequence of inserted rows
  intents,        \* the processor's intents created by createPaymentIntent
  deliveries,     \* number of deliveries the processor has made so far
  now,            \* the database clock NOW()
  wk,             \* worker -> the webhook request it is running
  appliedEvents,  \* events whose delivery finished having run its UPDATE
  ackedEvents,    \* tracked events naming a booking row that were answered 2xx
  response,       \* the HTTP response the last step sent, if it sent one
  allProperties,    \* all_properties: id -> row
  propertyDetails,  \* property_details: the row inserted with property id
  userInteractions, \* user_interactions: sequence of rows
  rq                \* request slot -> the listing request it is running

\* the tables and requests of the listing routes
lvars == <<allProperties, propertyDetails, userInteractions, rq>>

vars ==
  <<bookings, notifications, intents, deliveries, now, wk,
    appliedEvents, ackedEvents, response, lvars>>

(* ------------------------------ helpers ------------------------------- *)
\* Math.round of a number given in halves: floor(x + 0.5)
MathRound(half) == (half + 1) \div 2

\* amount / 100 as the DECIMAL the column payment_amount stores
Div100(amount) == [whole |-> amount \div 100, cents |-> amount % 100]

\* the signature stripe-signature carries: a MAC of the body under a key
Sign(key, body) == <<key, body>>

\* no event: the value of a worker's ev while it is idle
NoEvent ==
  [type |-> "none", id |-> NoIntent, booking_id |-> NoBooking, amount |-> 0,
   err |-> NoError]

IdleWorker ==
  [pc |-> "idle", ev |-> NoEvent, sigValid |-> FALSE, applied |-> FALSE,
   changed |-> FALSE, dbCalls |-> 0, recipient |-> NULL]

NoResponse == [route |-> "none", status |-> 0]

\* the processor's view of an intent: metadata.booking_id and amount
IntentBooking(id) ==
  IF id \in 1..Len(intents) THEN intents[id].booking_id ELSE NoBooking

IntentAmount(id) ==
  IF id \in 1..Len(intents) THEN intents[id].amount ELSE 5000

\* event.data.object of an event of the given type about the given intent;
\* a payment_failed event carries last_payment_error
EventOf(type, id) ==
  [type |-> type, id |-> id, booking_id |-> IntentBooking(id),
   amount |-> IntentAmount(id),
   err |-> IF type = "payment_intent.payment_failed" THEN CardDeclined
           ELSE NoError]

(* ------------------------------ Init ---------------------------------- *)
\* a booking row before any payment event: payment_status is NULL ("unset")
\* and no intent id is stored
InitBooking(b) ==
  [user_id |-> b, property_owner_id |-> OwnerUser,
   payment_status |-> "unset", stripe_payment_intent_id |-> NoIntent,
   payment_amount |-> Div100(0), payment_confirmed_at |-> NULL,
   payment_failed_at |-> NULL, payment_canceled_at |-> NULL,
   payment_error_message |-> NoError]

\* the rows POST /properties inserts: all_properties with is_active 1 and
\* approval_status 'pending', and property_details with 'pending'
NewProperty(user) ==
  [exists |-> TRUE, user_id |-> user, approval_status |-> "pending",
   is_active |-> TRUE]

NewPropertyDetails(user) ==
  [exists |-> TRUE, user_id |-> user, approval_status |-> "pending"]

\* a request slot that runs no request
IdleRequest ==
  [pc |-> "idle", op |-> "none", user |-> NULL, id |-> NULL,
   owner |-> NULL, found |-> FALSE, value |-> NULL]

\* the listing tables after the owner has created every property
ListingInit ==
  /\ allProperties = [p \in PropertyIds |-> NewProperty(OwnerUser)]
  /\ propertyDetails = [p \in PropertyIds |-> NewPropertyDetails(OwnerUser)]
  /\ userInteractions = <<>>
  /\ rq = [r \in Requests |-> IdleRequest]

PaymentInit ==
  /\ bookings = [b \in BookingIds |-> InitBooking(b)]
  /\ notifications = <<>>
  /\ intents = <<>>
  /\ deliveries = 0
  /\ now = 1
  /\ wk = [w \in Workers |-> IdleWorker]
  /\ appliedEvents = {}
  /\ ackedEvents = {}
  /\ response = NoResponse

Init == PaymentInit /\ ListingInit

(* ------------------------------ environment --------------------------- *)
\* the database clock advances
Tick ==
  /\ response = NoResponse
  /\ now < MaxTime
  /\ now' = now + 1
  /\ response' = NoResponse
  /\ UNCHANGED lvars
  /\ UNCHANGED <<bookings, notifications, intents, deliveries, wk,
                 appliedEvents, ackedEvents>>

(* ------------------------------ webhook ------------------------------- *)
\* a constructEvent that accepts every request
constructEventUnchecked(body, sig, secret) == TRUE

\* stripe.webhooks.constructEvent: TRUE when it returns the event, FALSE when
\* it throws (the header is missing or is no signature of this body under
\* the endpoint secret)
constructEvent(body, sig, secret) == sig = Sign(secret, body)

\* the route's answer after the switch: res.json({received: true}), or 500
\* from the catch when the handler's promise rejected
WebhookStatus(handlerThrew) == IF handlerThrew THEN 500 ELSE 200

\* a handler without its try/catch: a rejected query rejects the handler
HandlerRethrows(storeFailed) == storeFailed

\* whether a handler's promise rejects when one of its queries was rejected:
\* every handler wraps its body in try/catch and only logs the error
HandlerThrows(storeFailed) == FALSE

\* the webhook answers worker w's request: the handler returned
WebhookRespond(w, state, storeFailed) ==
  LET ev == state.ev
      status == WebhookStatus(HandlerThrows(storeFailed))
      ok == status \in 200..299
  IN /\ wk' = [wk EXCEPT ![w] = IdleWorker]
     /\ response' =
          [route |-> "webhook", status |-> status, body |-> ev,
           sigValid |-> state.sigValid, dbCalls |-> state.dbCalls,
           handler |-> ev.type, storeFailed |-> storeFailed,
           applied |-> state.applied]
     /\ ackedEvents' =
          IF ok /\ ev.type \in TrackedTypes /\ ev.booking_id \in BookingIds
          THEN ackedEvents \cup {ev} ELSE ackedEvents
     /\ appliedEvents' =
          IF state.applied THEN appliedEvents \cup {ev} ELSE appliedEvents

\* a worker moves on inside its handler
WebhookContinue(w, state) ==
  /\ wk' = [wk EXCEPT ![w] = state]
  /\ response' = NoResponse
  /\ UNCHANGED <<ackedEvents, appliedEvents>>

\* a handler that goes on without a booking id
HasBookingIdUnchecked(body) == TRUE

\* the handlers' first check, if (!bookingId) return: metadata.booking_id
HasBookingId(body) == body.booking_id # NoBooking

\* POST /webhook up to the first await: signature check, the switch on the
\* event type and the handler's check of metadata.booking_id
WebhookRoute(w, body, sig) ==
  /\ response = NoResponse
  /\ wk[w].pc = "idle"
  /\ \A v \in Workers : v < w => wk[v].pc # "idle"
  /\ UNCHANGED lvars
  /\ UNCHANGED <<bookings, notifications, intents, now>>
  /\ IF ~constructEvent(body, sig, EndpointSecret)
     THEN /\ response' =
               [route |-> "webhook", status |-> 400, body |-> body,
                sigValid |-> sig = Sign(EndpointSecret, body),
                dbCalls |-> 0, handler |-> "none",
                storeFailed |-> FALSE, applied |-> FALSE]
          /\ UNCHANGED <<wk, ackedEvents, appliedEvents>>
     ELSE LET st == [IdleWorker EXCEPT
                       !.ev = body,
                       !.sigValid = sig = Sign(EndpointSecret, body)]
          IN IF body.type \in TrackedTypes /\ HasBookingId(body)
             THEN WebhookContinue(w, [st EXCEPT !.pc = "update"])
             ELSE WebhookRespond(w, st, FALSE)

\* an UPDATE of handlePaymentSuccess that leaves the stored intent id alone
SuccessRowKeepsIntent(r, ev, t) ==
  [r EXCEPT !.payment_status = "confirmed",
            !.payment_confirmed_at = t,
            !.payment_amount = Div100(ev.amount)]

\* the row that handlePaymentSuccess's UPDATE writes over row r
SuccessRow(r, ev, t) ==
  [r EXCEPT !.payment_status = "confirmed",
            !.payment_confirmed_at = t,
            !.stripe_payment_intent_id = ev.id,
            !.payment_amount = Div100(ev.amount)]

\* the row that handlePaymentFailure's UPDATE writes over row r
FailureRow(r, ev, t) ==
  [r EXCEPT !.payment_status = "failed",
            !.payment_failed_at = t,
            !.stripe_payment_intent_id = ev.id,
            !.payment_error_message =
               IF ev.err # NoError THEN ev.err ELSE "Payment failed"]

\* the row that handlePaymentCanceled's UPDATE writes over row r
CanceledRow(r, ev, t) ==
  [r EXCEPT !.payment_status = "canceled",
            !.payment_canceled_at = t,
            !.stripe_payment_intent_id = ev.id]

\* the row an event's handler writes
EventRow(r, ev, t) ==
  CASE ev.type = "payment_intent.succeeded" -> SuccessRow(r, ev, t)
    [] ev.type = "payment_intent.payment_failed" -> FailureRow(r, ev, t)
    [] OTHER -> CanceledRow(r, ev, t)

\* an UPDATE without its WHERE clause
UpdateEveryBooking(ev, t) ==
  [b \in BookingIds |-> EventRow(bookings[b], ev, t)]

\* UPDATE booking_requests SET ... WHERE id = ?: every row with that id (one
\* or none) is overwritten, whatever its payment_status and stored intent
UpdateBooking(ev, t) ==
  [b \in BookingIds |->
     IF b = ev.booking_id THEN EventRow(bookings[b], ev, t) ELSE bookings[b]]

\* the first await of a handler: the UPDATE runs, or the query rejects and
\* the handler's catch logs the error and returns
HandlerUpdate(w, type, fails) ==
  /\ response = NoResponse
  /\ wk[w].pc = "update"
  /\ wk[w].ev.type = type
  /\ UNCHANGED lvars
  /\ UNCHANGED <<notifications, intents, deliveries, now>>
  /\ LET st == [wk[w] EXCEPT !.dbCalls = @ + 1]
         b == st.ev.booking_id
         done == [st EXCEPT
                    !.applied = TRUE,
                    !.changed =
                       /\ b \in BookingIds
                       /\ bookings[b].payment_status
                            # EventRow(bookings[b], st.ev, now).payment_status]
     IN IF fails
        THEN /\ UNCHANGED bookings
             /\ WebhookRespond(w, st, TRUE)
        ELSE /\ bookings' = UpdateBooking(st.ev, now)
             /\ IF type = "payment_intent.canceled"
                THEN WebhookRespond(w, done, FALSE)
                ELSE WebhookContinue(w, [done EXCEPT !.pc = "select"])

\* the second await: SELECT br.*, p.title, ... WHERE br.id = ?
HandlerSelect(w, type, fails) ==
  /\ response = NoResponse
  /\ wk[w].pc = "select"
  /\ wk[w].ev.type = type
  /\ UNCHANGED lvars
  /\ UNCHANGED <<bookings, notifications, intents, deliveries, now>>
  /\ LET st == [wk[w] EXCEPT !.dbCalls = @ + 1]
         id == st.ev.booking_id
     IN IF fails \/ id \notin BookingIds
        THEN WebhookRespond(w, st, fails)
        ELSE WebhookContinue(w,
               [st EXCEPT !.pc = "insert",
                          !.recipient =
                             IF type = "payment_intent.succeeded"
                             THEN bookings[id].property_owner_id
                             ELSE bookings[id].user_id])

\* the third await: INSERT INTO notifications
HandlerInsert(w, type, fails) ==
  /\ response = NoResponse
  /\ wk[w].pc = "insert"
  /\ wk[w].ev.type = type
  /\ UNCHANGED lvars
  /\ UNCHANGED <<bookings, intents, deliveries, now>>
  /\ LET st == [wk[w] EXCEPT !.dbCalls = @ + 1]
     IN /\ notifications' =
             IF fails THEN notifications
             ELSE Append(notifications,
                    [user_id |-> st.recipient,
                     type |-> IF type = "payment_intent.succeeded"
                              THEN "payment_confirmed" ELSE "payment_failed",
                     booking_id |-> st.ev.booking_id,
                     created_at |-> now])
        /\ WebhookRespond(w, st, fails)

handlePaymentSuccess(w, fails) ==
  \/ HandlerUpdate(w, "payment_intent.succeeded", fails)
  \/ HandlerSelect(w, "payment_intent.succeeded", fails)
  \/ HandlerInsert(w, "payment_intent.succeeded", fails)

handlePaymentFailure(w, fails) ==
  \/ HandlerUpdate(w, "payment_intent.payment_failed", fails)
  \/ HandlerSelect(w, "payment_intent.payment_failed", fails)
  \/ HandlerInsert(w, "payment_intent.payment_failed", fails)

handlePaymentCanceled(w, fails) ==
  HandlerUpdate(w, "payment_intent.canceled", fails)

(* ------------------------- create-payment-intent --------------------- *)
\* error.message of the exception stripe.paymentIntents.create throws
StripeErrorMessage(fault) ==
  CASE fault = "invalid_api_key" -> "Invalid API Key provided: sk_live_****"
    [] fault = "unreachable" ->
         "An error occurred with our connection to Stripe."
    [] fault = "timeout" -> "Request timed out"
    [] OTHER -> "Invalid positive integer"

\* paymentGateway.createPaymentIntent: the amount is rounded, the processor is
\* called, and every exception becomes {success: false, error: error.message}.
\* The processor refuses an amount below 1.
createPaymentIntent(amountHalf, bookingId, fault) ==
  LET amount == MathRound(amountHalf)
  IN IF fault \notin StripeFaults /\ amount >= 1
     THEN [success |-> TRUE, error |-> NoError,
           payment_intent_id |-> Len(intents) + 1,
           booking_id |-> bookingId, amount |-> amount]
     ELSE [success |-> FALSE, error |-> StripeErrorMessage(fault),
           payment_intent_id |-> NoIntent,
           booking_id |-> NoBooking, amount |-> 0]

\* a response of POST /create-payment-intent: status and JSON body, and of the
\* request it answers: the amount, whether the SELECT found the caller's
\* booking (owned), whether a row with that id exists at all, the row's
\* payment_status, and the fault met
CreateResponse(status, error, message, intentId, amountHalf, facts) ==
  [route |-> "create", status |-> status, error |-> error,
   message |-> message, payment_intent_id |-> intentId,
   amountHalf |-> amountHalf, stripeCalled |-> facts.stripeCalled,
   owned |-> facts.owned, exists |-> facts.exists,
   statusBefore |-> facts.statusBefore, fault |-> facts.fault]

NoFacts ==
  [stripeCalled |-> FALSE, owned |-> FALSE, exists |-> FALSE,
   statusBefore |-> "none", fault |-> "none"]

\* booking_requests after a successful create-payment-intent that marks the
\* booking as submitted with the new intent (the route does not do this)
BookingsMarkedSubmitted(booking_id, intentId) ==
  [bookings EXCEPT ![booking_id].payment_status = "submitted",
                   ![booking_id].stripe_payment_intent_id = intentId]

\* booking_requests after a successful create-payment-intent: the route runs
\* one SELECT and no UPDATE, so the table is as before
BookingsAfterCreate(booking_id, intentId) == bookings

\* a SELECT that looks the booking up by its id alone
SelectBookingById(user, booking_id) ==
  {b \in BookingIds : b = booking_id}

\* SELECT * FROM booking_requests WHERE id = ? AND user_id = ?
SelectOwnBooking(user, booking_id) ==
  {b \in BookingIds : b = booking_id /\ bookings[b].user_id = user}

\* POST /create-payment-intent by an authenticated user
CreatePaymentIntentRoute(user, booking_id, amountHalf, fault) ==
  LET rows == SelectOwnBooking(user, booking_id)
      result == createPaymentIntent(amountHalf, booking_id, fault)
      notFound == [NoFacts EXCEPT !.exists = booking_id \in BookingIds]
      found == [stripeCalled |-> TRUE,
                owned |-> bookings[booking_id].user_id = user,
                exists |-> TRUE,
                statusBefore |-> bookings[booking_id].payment_status,
                fault |-> IF fault \in StripeFaults THEN fault ELSE "none"]
  IN /\ response = NoResponse
     /\ UNCHANGED lvars
     /\ UNCHANGED <<notifications, deliveries, now, wk, appliedEvents,
                    ackedEvents>>
     /\ bookings' = IF rows # {} /\ result.success /\ fault # "db"
                       /\ amountHalf # 0
                    THEN BookingsAfterCreate(booking_id,
                                             result.payment_intent_id)
                    ELSE bookings
     /\ IF booking_id = NoBooking \/ amountHalf = 0
        THEN /\ response' = CreateResponse(400, "Missing required fields",
                    "Booking ID and amount are required", NoIntent,
                    amountHalf, NoFacts)
             /\ UNCHANGED intents
        ELSE IF fault = "db"
        THEN /\ response' = CreateResponse(500, "Payment processing failed",
                    NoError, NoIntent, amountHalf,
                    [NoFacts EXCEPT !.fault = "db"])
             /\ UNCHANGED intents
        ELSE IF rows = {}
        THEN /\ response' = CreateResponse(404, "Booking not found",
                    NoError, NoIntent, amountHalf, notFound)
             /\ UNCHANGED intents
        ELSE IF ~result.success
        THEN /\ response' =
                  IF result.error = "STRIPE_API_KEY_ERROR"
                  THEN CreateResponse(400, "STRIPE_API_KEY_ERROR",
                         "Payment service temporarily unavailable", NoIntent,
                         amountHalf, found)
                  ELSE CreateResponse(500, "Payment intent creation failed",
                         result.error, NoIntent, amountHalf, found)
             /\ UNCHANGED intents
        ELSE /\ Len(intents) < MaxIntents
             /\ response' = CreateResponse(200, NoError, NoError,
                    result.payment_intent_id, amountHalf, found)
             /\ intents' = Append(intents,
                    [booking_id |-> result.booking_id,
                     amount |-> result.amount,
                     retry |-> bookings[booking_id].payment_status = "failed"])

(* ---------------- confirm-payment-intent, verify-stripe-payment -------- *)
\* paymentIntent.status values the processor reports for an intent
PaymentIntentStatuses == {"succeeded", "processing", "requires_action"}

\* what a call of stripe.paymentIntents.confirm / retrieve comes to: the
\* intent in one of its statuses, or an exception
ProcessorOutcomes == PaymentIntentStatuses \cup StripeFaults

\* the intents the processor knows
KnownIntents == (1..Len(intents)) \cup ForeignIntents

\* error.message of the exception stripe.paymentIntents.confirm / retrieve
\* throws for the given intent id and outcome
RetrieveErrorMessage(paymentIntentId, outcome) ==
  IF outcome \in StripeFaults THEN StripeErrorMessage(outcome)
  ELSE "No such payment_intent"

\* error.message.toLowerCase().includes('invalid api key')
IncludesInvalidApiKey(message) ==
  message = "Invalid API Key provided: sk_live_****"

\* what the processor call of a request came to: one of the outcomes, or the
\* exception for an intent id the processor does not know
ProcessorResult(paymentIntentId, outcome) ==
  IF paymentIntentId \in KnownIntents \/ outcome \in StripeFaults
  THEN outcome ELSE "no_such_intent"

\* paymentGateway.confirmPaymentIntent: success is status === 'succeeded',
\* the amount is divided by 100, and every exception becomes
\* {success: false, error: error.message} with no status
confirmPaymentIntent(paymentIntentId, outcome) ==
  IF paymentIntentId \in KnownIntents /\ outcome \in PaymentIntentStatuses
  THEN [success |-> outcome = "succeeded", status |-> outcome,
        amount |-> Div100(IntentAmount(paymentIntentId)), error |-> NoError]
  ELSE [success |-> FALSE, status |-> "none", amount |-> Div100(0),
        error |-> RetrieveErrorMessage(paymentIntentId, outcome)]

\* paymentGateway.verifyPayment: as confirmPaymentIntent, but an exception
\* whose message names an invalid API key becomes the code STRIPE_API_KEY_ERROR
verifyPayment(paymentIntentId, outcome) ==
  LET message == RetrieveErrorMessage(paymentIntentId, outcome)
  IN IF paymentIntentId \in KnownIntents /\ outcome \in PaymentIntentStatuses
     THEN [success |-> outcome = "succeeded", status |-> outcome,
           amount |-> Div100(IntentAmount(paymentIntentId)),
           error |-> NoError]
     ELSE [success |-> FALSE, status |-> "none", amount |-> Div100(0),
           error |-> IF IncludesInvalidApiKey(message)
                     THEN "STRIPE_API_KEY_ERROR" ELSE message]

\* a response of POST /confirm-payment-intent or /verify-stripe-payment:
\* status and JSON body (error, message, success, status as pstatus), and of
\* the request it answers what the processor call came to
GatewayResponse(route, status, error, message, success, pstatus, outcome) ==
  [route |-> route, status |-> status, error |-> error, message |-> message,
   success |-> success, pstatus |-> pstatus, outcome |-> outcome]

\* the answer both routes give to the gateway's result: 400 with
\* message: result.error when result.success is false (a result without
\* error gives a body without message), else 200 with the status
GatewayAnswer(route, failure, result, outcome) ==
  IF ~result.success
  THEN GatewayResponse(route, 400, failure, result.error, FALSE, "none",
                       outcome)
  ELSE GatewayResponse(route, 200, NoError, NoError, TRUE, result.status,
                       outcome)

\* booking_requests after a confirm-payment-intent that writes the
\* processor's answer to the booking of the intent (the route does not)
BookingsMarkedByConfirm(paymentIntentId, result) ==
  [b \in BookingIds |->
     IF b = IntentBooking(paymentIntentId) /\ result.success
     THEN [bookings[b] EXCEPT !.payment_status = "confirmed",
                              !.stripe_payment_intent_id = paymentIntentId]
     ELSE bookings[b]]

\* booking_requests after confirm-payment-intent or verify-stripe-payment:
\* neither route issues a query, so the table is as before
BookingsAfterGatewayCall(paymentIntentId, result) == bookings

\* POST /confirm-payment-intent by an authenticated user; hasMethod is whether
\* the body carries payment_method_id
ConfirmPaymentIntentRoute(payment_intent_id, hasMethod, outcome) ==
  LET result == confirmPaymentIntent(payment_intent_id, outcome)
  IN /\ response = NoResponse
     /\ UNCHANGED lvars
     /\ UNCHANGED <<notifications, intents, deliveries, now, wk,
                    appliedEvents, ackedEvents>>
     /\ IF payment_intent_id = NoIntent \/ ~hasMethod
        THEN /\ response' = GatewayResponse("confirm", 400,
                    "Payment intent ID and payment method ID are required",
                    NoError, FALSE, "none", "none")
             /\ UNCHANGED bookings
        ELSE /\ response' = GatewayAnswer("confirm",
                    "Payment confirmation failed", result,
                    ProcessorResult(payment_intent_id, outcome))
             /\ bookings' = BookingsAfterGatewayCall(payment_intent_id, result)

\* POST /verify-stripe-payment by an authenticated user
VerifyStripePaymentRoute(payment_intent_id, outcome) ==
  LET result == verifyPayment(payment_intent_id, outcome)
  IN /\ response = NoResponse
     /\ UNCHANGED lvars
     /\ UNCHANGED <<notifications, intents, deliveries, now, wk,
                    appliedEvents, ackedEvents>>
     /\ IF payment_intent_id = NoIntent
        THEN /\ response' = GatewayResponse("verify", 400,
                    "Payment intent ID required", NoError, FALSE, "none",
                    "none")
             /\ UNCHANGED bookings
        ELSE /\ response' = GatewayAnswer("verify",
                    "Payment verification failed", result,
                    ProcessorResult(payment_intent_id, outcome))
             /\ bookings' = BookingsAfterGatewayCall(payment_intent_id, result)

(* ------------- GET confirmation/:id, GET booking/:id/status ----------- *)
\* all users that send requests: the renters and the property owner
Users == BookingIds \cup {OwnerUser}

\* whether stripe.paymentIntents.retrieve throws for the intent id
RetrieveThrows(paymentIntentId, fault) ==
  paymentIntentId \notin KnownIntents \/ fault \in StripeFaults

\* an exception of the retrieve that is not caught around the call
RetrieveUncaught(threw) == threw

\* whether an exception of the retrieve reaches the route's outer catch: the
\* inner try/catch around the call only logs it
RetrievePropagates(threw) == FALSE

\* stripePayment of the response: the processor's intent, or null when the
\* retrieve threw
RetrieveOrNull(paymentIntentId, fault) ==
  IF RetrieveThrows(paymentIntentId, fault) THEN NoIntent
  ELSE paymentIntentId

\* a response of the two GET routes: status and JSON body (error, the booking
\* row shown, the processor's intent or null), and of the request it answers
\* whether the caller may see the booking asked for, whether a booking asked
\* for exists, and whether the retrieve was called and threw
ReadResponse(route, status, error, booking, payment, facts) ==
  [route |-> route, status |-> status, error |-> error, booking |-> booking,
   payment |-> payment, callerMay |-> facts.callerMay,
   exists |-> facts.exists, retrieveThrew |-> facts.retrieveThrew]

\* the first row of a result set (rows come back in id order)
FirstRow(rows) == CHOOSE b \in rows : \A c \in rows : b <= c

\* booking_requests after one of the GET routes: each runs one SELECT
BookingsAfterRead(rows) == bookings

\* the bookings that store the intent id
BookingsOfIntent(payment_intent_id) ==
  {b \in BookingIds :
     /\ bookings[b].stripe_payment_intent_id # NoIntent
     /\ bookings[b].stripe_payment_intent_id = payment_intent_id}

\* a SELECT by the intent id alone
SelectConfirmationOfAnyone(user, payment_intent_id) ==
  BookingsOfIntent(payment_intent_id)

\* SELECT br.* ... WHERE br.stripe_payment_intent_id = ? AND br.user_id = ?
SelectConfirmation(user, payment_intent_id) ==
  {b \in BookingsOfIntent(payment_intent_id) : bookings[b].user_id = user}

\* SELECT ... FROM booking_requests
\* WHERE id = ? AND (user_id = ? OR property_owner_id = ?)
SelectBookingStatus(user, booking_id) ==
  {b \in BookingIds :
     /\ b = booking_id
     /\ (bookings[b].user_id = user \/ bookings[b].property_owner_id = user)}

\* the answer of a GET route after its SELECT
ReadAnswer(route, failure, notFound, rows, payment, facts, fault) ==
  IF fault = "db" \/ (rows # {} /\ RetrievePropagates(facts.retrieveThrew))
  THEN ReadResponse(route, 500, failure, NoBooking, NoIntent, facts)
  ELSE IF rows = {}
  THEN ReadResponse(route, 404, notFound, NoBooking, NoIntent, facts)
  ELSE ReadResponse(route, 200, NoError, FirstRow(rows), payment, facts)

\* GET /confirmation/:payment_intent_id by an authenticated user
GetConfirmationRoute(user, payment_intent_id, fault) ==
  LET rows == SelectConfirmation(user, payment_intent_id)
      facts ==
        [callerMay |-> \E b \in BookingIds :
                         /\ bookings[b].stripe_payment_intent_id
                              = payment_intent_id
                         /\ bookings[b].user_id = user,
         exists |-> BookingsOfIntent(payment_intent_id) # {},
         retrieveThrew |-> /\ fault # "db"
                           /\ rows # {}
                           /\ RetrieveThrows(payment_intent_id, fault)]
  IN /\ response = NoResponse
     /\ UNCHANGED lvars
     /\ UNCHANGED <<notifications, intents, deliveries, now, wk,
                    appliedEvents, ackedEvents>>
     /\ bookings' = BookingsAfterRead(rows)
     /\ response' = ReadAnswer("confirmation",
                      "Unable to retrieve payment confirmation",
                      "Payment confirmation not found", rows,
                      RetrieveOrNull(payment_intent_id, fault), facts, fault)

\* GET /booking/:booking_id/status by an authenticated user
GetBookingStatusRoute(user, booking_id, fault) ==
  LET rows == SelectBookingStatus(user, booking_id)
      stored == IF rows = {} THEN NoIntent
                ELSE bookings[FirstRow(rows)].stripe_payment_intent_id
      facts ==
        [callerMay |-> /\ booking_id \in BookingIds
                       /\ user \in {bookings[booking_id].user_id,
                                    bookings[booking_id].property_owner_id},
         exists |-> booking_id \in BookingIds,
         retrieveThrew |-> /\ fault # "db"
                           /\ stored # NoIntent
                           /\ RetrieveThrows(stored, fault)]
  IN /\ response = NoResponse
     /\ UNCHANGED lvars
     /\ UNCHANGED <<notifications, intents, deliveries, now, wk,
                    appliedEvents, ackedEvents>>
     /\ bookings' = BookingsAfterRead(rows)
     /\ response' = ReadAnswer("status", "Unable to retrieve payment status",
                      "Booking not found", rows,
                      IF stored # NoIntent THEN RetrieveOrNull(stored, fault)
                      ELSE NoIntent,
                      facts, fault)

(* ------------------------------ listings ------------------------------ *)
\* the payment tables and the webhook workers: no listing route touches them
pvars ==
  <<bookings, notifications, intents, deliveries, now, wk, appliedEvents,
    ackedEvents>>

\* a response of a listing route: status and error of the body, and of the
\* request it answers the caller, the caller's role and the id it named
ListingResponse(route, status, error, user, id) ==
  [route |-> route, status |-> status, error |-> error, user |-> user,
   role |-> Role(user), id |-> id]

\* SELECT ... FROM all_properties WHERE id = ? returns a row
PropertyFound(id) == id \in PropertyIds /\ allProperties[id].exists

\* SELECT id FROM property_details WHERE user_id = ?
DetailsOfUser(owner) ==
  {p \in PropertyIds :
     propertyDetails[p].exists /\ propertyDetails[p].user_id = owner}

\* UPDATE property_details SET approval_status = ?, ... WHERE user_id = ?
\* (the table has no property id: every row of the owner is written)
UpdateDetails(id, owner, status) ==
  [p \in PropertyIds |->
     IF p \in DetailsOfUser(owner)
     THEN [propertyDetails[p] EXCEPT !.approval_status = status]
     ELSE propertyDetails[p]]

\* DELETE FROM property_details WHERE user_id = ?
DeleteDetails(owner) ==
  [p \in PropertyIds |->
     IF p \in DetailsOfUser(owner)
     THEN [propertyDetails[p] EXCEPT !.exists = FALSE]
     ELSE propertyDetails[p]]

\* a field that a request body does not carry
Absent == "absent"

\* the bodies of PUT /:id and PATCH /:id/status: is_active ("1", "0") and
\* approval_status, each of which may be absent
StatusBodies ==
  [is_active : {Absent, "0"}, approval_status : {Absent, "approved"}]

\* the approval_status PUT /properties/:id takes from the body:
\* approval_status is one of its allowedFields, for every caller
PutStatus(body) == body.approval_status

\* the approval_status PATCH /properties/:id/status takes from the body: only
\* from an admin, and only a valid status
PatchStatusValue(user, body) ==
  IF body.approval_status # Absent /\ Role(user) = "admin"
       /\ body.approval_status \in {"pending", "approved", "rejected"}
  THEN body.approval_status ELSE Absent

\* the transaction of PUT /:id and PATCH /:id/status: UPDATE all_properties
\* SET ... WHERE id = ? and, with an approval_status, UPDATE property_details
WriteProperty(id, owner, active, status) ==
  /\ allProperties' =
       [allProperties EXCEPT
          ![id].is_active = IF active # Absent THEN active = "1" ELSE @,
          ![id].approval_status = IF status # Absent THEN status ELSE @]
  /\ propertyDetails' =
       IF status # Absent THEN UpdateDetails(id, owner, status)
       ELSE propertyDetails

\* the checks PUT /:id, PATCH /:id/status and DELETE /:id share: the row
\* exists (404) and the caller is an admin or its owner (403)
PropertyAccess(user, id) ==
  IF ~PropertyFound(id) THEN 404
  ELSE IF Role(user) # "admin" /\ allProperties[id].user_id # user THEN 403
  ELSE 200

AccessError(status) ==
  IF status = 404 THEN "Property not found" ELSE "Access denied"

\* PUT /properties/:id by an authenticated user
PutProperty(user, id, body) ==
  LET access == PropertyAccess(user, id)
      status == PutStatus(body)
  IN /\ response = NoResponse
     /\ UNCHANGED <<pvars, userInteractions, rq>>
     /\ IF access # 200
        THEN /\ response' = ListingResponse("put", access,
                              AccessError(access), user, id)
             /\ UNCHANGED <<allProperties, propertyDetails>>
        ELSE IF body.is_active = Absent /\ status = Absent
        THEN /\ response' = ListingResponse("put", 400,
                              "No valid fields to update", user, id)
             /\ UNCHANGED <<allProperties, propertyDetails>>
        ELSE /\ WriteProperty(id, allProperties[id].user_id, body.is_active,
                              status)
             /\ response' = ListingResponse("put", 200, NoError, user, id)

\* PATCH /properties/:id/status by an authenticated user
PatchPropertyStatus(user, id, body) ==
  LET access == PropertyAccess(user, id)
      status == PatchStatusValue(user, body)
  IN /\ response = NoResponse
     /\ UNCHANGED <<pvars, userInteractions, rq>>
     /\ IF access # 200
        THEN /\ response' = ListingResponse("patch_status", access,
                              AccessError(access), user, id)
             /\ UNCHANGED <<allProperties, propertyDetails>>
        ELSE IF body.is_active = Absent /\ status = Absent
        THEN /\ response' = ListingResponse("patch_status", 400,
                              "No valid fields to update", user, id)
             /\ UNCHANGED <<allProperties, propertyDetails>>
        ELSE /\ WriteProperty(id, allProperties[id].user_id, body.is_active,
                              status)
             /\ response' = ListingResponse("patch_status", 200, NoError,
                              user, id)

\* the transaction of the approve and reject routes: UPDATE all_properties
\* SET approval_status = ?, is_active = ? WHERE id = ?, and UPDATE
\* property_details WHERE user_id = ? when the owner has rows there
ApprovalWrite(id, owner, status, detailsFound) ==
  /\ allProperties' =
       IF PropertyFound(id)
       THEN [allProperties EXCEPT ![id].approval_status = status,
                                  ![id].is_active = status = "approved"]
       ELSE allProperties
  /\ propertyDetails' =
       IF detailsFound THEN UpdateDetails(id, owner, status)
       ELSE propertyDetails

\* PATCH /properties/:id/approve and /reject (status says which) by an
\* authenticated user; a reject carries its rejection_reason
PatchPropertyApproval(user, id, status) ==
  LET route == IF status = "approved" THEN "patch_approve"
               ELSE "patch_reject"
  IN /\ response = NoResponse
     /\ UNCHANGED <<pvars, userInteractions, rq>>
     /\ IF Role(user) # "admin"
        THEN /\ response' = ListingResponse(route, 403, "Access denied",
                              user, id)
             /\ UNCHANGED <<allProperties, propertyDetails>>
        ELSE IF ~PropertyFound(id)
        THEN /\ response' = ListingResponse(route, 404,
                              "Property not found", user, id)
             /\ UNCHANGED <<allProperties, propertyDetails>>
        ELSE /\ ApprovalWrite(id, allProperties[id].user_id, status,
                   DetailsOfUser(allProperties[id].user_id) # {})
             /\ response' = ListingResponse(route, 200, NoError, user, id)

\* DELETE /properties/:id by an authenticated user
DeleteProperty(user, id) ==
  LET access == PropertyAccess(user, id)
  IN /\ response = NoResponse
     /\ UNCHANGED <<pvars, userInteractions, rq>>
     /\ IF access # 200
        THEN /\ response' = ListingResponse("delete", access,
                              AccessError(access), user, id)
             /\ UNCHANGED <<allProperties, propertyDetails>>
        ELSE /\ allProperties' = [allProperties EXCEPT ![id].exists = FALSE]
             /\ propertyDetails' = DeleteDetails(allProperties[id].user_id)
             /\ response' = ListingResponse("delete", 200, NoError, user, id)

(* --------------------- admin approve and reject ----------------------- *)
\* the lowest idle request slot takes the next request
FreeSlot(r) ==
  /\ rq[r].pc = "idle"
  /\ \A q \in Requests : q < r => rq[q].pc # "idle"

\* a request slot moves on to its next await
RequestContinue(r, state) ==
  /\ rq' = [rq EXCEPT ![r] = state]
  /\ response' = NoResponse

\* a request slot answers its request
RequestRespond(r, resp) ==
  /\ rq' = [rq EXCEPT ![r] = IdleRequest]
  /\ response' = resp

\* PUT /admin/properties/:id/approve and /reject (op says which) up to the
\* result of the first SELECT: requireAdmin, then 404 for no row and 400
\* for a row that is not pending; a reject carries its rejection_reason
AdminDecisionStart(r, user, op, id) ==
  /\ response = NoResponse
  /\ FreeSlot(r)
  /\ UNCHANGED <<pvars, allProperties, propertyDetails, userInteractions>>
  /\ IF Role(user) # "admin"
     THEN /\ response' = ListingResponse(op, 403, "Access denied", user, id)
          /\ UNCHANGED rq
     ELSE IF ~PropertyFound(id)
     THEN /\ response' = ListingResponse(op, 404, "Property not found",
                           user, id)
          /\ UNCHANGED rq
     ELSE IF allProperties[id].approval_status # "pending"
     THEN /\ response' = ListingResponse(op, 400, "Invalid status", user, id)
          /\ UNCHANGED rq
     ELSE RequestContinue(r,
            [IdleRequest EXCEPT !.pc = "details", !.op = op, !.user = user,
                                !.id = id,
                                !.owner = allProperties[id].user_id])

\* the second await: SELECT id FROM property_details WHERE user_id = ?
AdminDecisionDetails(r) ==
  /\ response = NoResponse
  /\ rq[r].pc = "details"
  /\ UNCHANGED <<pvars, allProperties, propertyDetails, userInteractions>>
  /\ RequestContinue(r,
       [rq[r] EXCEPT !.pc = "execute",
                     !.found = DetailsOfUser(rq[r].owner) # {}])

\* the third await: executeTransaction(queries), then res.json
AdminDecisionExecute(r) ==
  /\ response = NoResponse
  /\ rq[r].pc = "execute"
  /\ UNCHANGED <<pvars, userInteractions>>
  /\ ApprovalWrite(rq[r].id, rq[r].owner,
                   IF rq[r].op = "approve" THEN "approved" ELSE "rejected",
                   rq[r].found)
  /\ RequestRespond(r, ListingResponse(rq[r].op, 200, NoError, rq[r].user,
                                       rq[r].id))

(* ------------------------- favorites and ratings ---------------------- *)
\* the rows of user_interactions of one user, property and interaction_type
MatchingIn(rows, user, id, type) ==
  {i \in 1..Len(rows) :
     /\ rows[i].user_id = user
     /\ rows[i].property_id = id
     /\ rows[i].interaction_type = type}

Matching(user, id, type) == MatchingIn(userInteractions, user, id, type)

\* DELETE FROM user_interactions WHERE user_id = ? AND property_id = ?
\* AND interaction_type = ?
DeleteMatching(user, id, type) ==
  SelectSeq(userInteractions,
            LAMBDA row : ~(/\ row.user_id = user
                           /\ row.property_id = id
                           /\ row.interaction_type = type))

\* UPDATE user_interactions SET rating_score = ? WHERE user_id = ? AND
\* property_id = ? AND interaction_type = 'rating'
UpdateMatching(user, id, score) ==
  [i \in 1..Len(userInteractions) |->
     IF i \in Matching(user, id, "rating")
     THEN [userInteractions[i] EXCEPT !.rating_score = score]
     ELSE userInteractions[i]]

\* INSERT INTO user_interactions (...) VALUES (...)
InsertInteraction(user, id, type, score) ==
  Append(userInteractions,
         [user_id |-> user, property_id |-> id, interaction_type |-> type,
          rating_score |-> score])

\* parseInt of a rating given in tenths: the digits before the point
ParseInt(tenths) ==
  IF tenths >= 0 THEN tenths \div 10 ELSE -((-tenths) \div 10)

\* the checks POST /favorite and POST /rating make on the property row:
\* 404 for no row, 400 for a row that is inactive, not approved or the
\* caller's own
InteractionAccess(user, id) ==
  IF ~PropertyFound(id) THEN 404
  ELSE IF ~allProperties[id].is_active
            \/ allProperties[id].approval_status # "approved"
            \/ allProperties[id].user_id = user
  THEN 400
  ELSE 200

\* POST /user-interactions/favorite up to the result of the first SELECT
FavoriteStart(r, user, id) ==
  LET access == InteractionAccess(user, id)
  IN /\ response = NoResponse
     /\ FreeSlot(r)
     /\ UNCHANGED <<pvars, allProperties, propertyDetails, userInteractions>>
     /\ IF access # 200
        THEN /\ response' = ListingResponse("favorite", access,
                              "Property not available", user, id)
             /\ UNCHANGED rq
        ELSE RequestContinue(r,
               [IdleRequest EXCEPT !.pc = "existing", !.op = "favorite",
                                   !.user = user, !.id = id])

\* POST /user-interactions/rating up to the result of the first SELECT; the
\* rating is given in tenths (47 is 4.7)
RatingStart(r, user, id, tenths) ==
  LET access == InteractionAccess(user, id)
      ratingValue == ParseInt(tenths)
  IN /\ response = NoResponse
     /\ FreeSlot(r)
     /\ UNCHANGED <<pvars, allProperties, propertyDetails, userInteractions>>
     /\ IF tenths = 0 \/ ratingValue < 1 \/ ratingValue > 5
        THEN /\ response' = ListingResponse("rating", 400,
                              "Rating must be an integer between 1 and 5",
                              user, id)
             /\ UNCHANGED rq
        ELSE IF access # 200
        THEN /\ response' = ListingResponse("rating", access,
                              "Property not available", user, id)
             /\ UNCHANGED rq
        ELSE RequestContinue(r,
               [IdleRequest EXCEPT !.pc = "existing", !.op = "rating",
                                   !.user = user, !.id = id,
                                   !.value = ratingValue])

\* DELETE /user-interactions/rating/:property_id: the request arrives
RatingDeleteStart(r, user, id) ==
  /\ response = NoResponse
  /\ FreeSlot(r)
  /\ UNCHANGED <<pvars, allProperties, propertyDetails, userInteractions>>
  /\ RequestContinue(r,
       [IdleRequest EXCEPT !.pc = "existing", !.op = "unrate",
                           !.user = user, !.id = id])

\* the await of SELECT id FROM user_interactions WHERE user_id = ? AND
\* property_id = ? AND interaction_type = ?; DELETE /rating answers 404 here
InteractionSelect(r) ==
  LET type == IF rq[r].op = "favorite" THEN "favorite" ELSE "rating"
      found == Matching(rq[r].user, rq[r].id, type) # {}
  IN /\ response = NoResponse
     /\ rq[r].pc = "existing"
     /\ UNCHANGED <<pvars, allProperties, propertyDetails, userInteractions>>
     /\ IF rq[r].op = "unrate" /\ ~found
        THEN RequestRespond(r, ListingResponse("unrate", 404,
                                 "Rating not found", rq[r].user, rq[r].id))
        ELSE RequestContinue(r, [rq[r] EXCEPT !.pc = "write",
                                              !.found = found])

\* the last await: the DELETE, UPDATE or INSERT chosen from the SELECT's
\* result, then res.json
InteractionWrite(r) ==
  LET q == rq[r]
  IN /\ response = NoResponse
     /\ q.pc = "write"
     /\ UNCHANGED <<pvars, allProperties, propertyDetails>>
     /\ userInteractions' =
          CASE q.op = "favorite" /\ q.found ->
                 DeleteMatching(q.user, q.id, "favorite")
            [] q.op = "favorite" /\ ~q.found ->
                 InsertInteraction(q.user, q.id, "favorite", NULL)
            [] q.op = "rating" /\ q.found ->
                 UpdateMatching(q.user, q.id, q.value)
            [] q.op = "rating" /\ ~q.found ->
                 InsertInteraction(q.user, q.id, "rating", q.value)
            [] OTHER -> DeleteMatching(q.user, q.id, "rating")
     /\ Len(userInteractions') <= MaxInteractions
     /\ RequestRespond(r, [ListingResponse(q.op, 200, NoError, q.user, q.id)
                             EXCEPT !.error =
                               IF q.op = "favorite"
                               THEN (IF q.found THEN "removed" ELSE "added")
                               ELSE IF q.op = "rating"
                               THEN (IF q.found THEN "updated" ELSE "created")
                               ELSE NoError])

(* ------------------------------ clients ------------------------------- *)
\* the response has reached its client; the next request step follows
ResponseSent ==
  /\ response # NoResponse
  /\ response' = NoResponse
  /\ UNCHANGED lvars
  /\ UNCHANGED <<bookings, notifications, intents, deliveries, now, wk,
                 appliedEvents, ackedEvents>>

(* ------------------------------ senders ------------------------------- *)
\* the processor delivers an event about one of its intents, signed with the
\* endpoint secret; it delivers at least once, in any order
StripeDeliver(w, type, id) ==
  /\ deliveries < MaxDeliveries
  /\ id \in (1..Len(intents)) \cup ForeignIntents
  /\ deliveries' = deliveries + 1
  /\ LET body == EventOf(type, id)
     IN WebhookRoute(w, body, Sign(EndpointSecret, body))

\* the body a sender without the endpoint secret posts
ForgedBody ==
  [type |-> "payment_intent.succeeded", id |-> 1, booking_id |-> 1,
   amount |-> 5000, err |-> NoError]

\* the stripe-signature headers such a sender can produce: none, one under
\* another key, or the genuine signature of a different body
ForgedSignatures ==
  {NoSignature, Sign(OtherSecret, ForgedBody), Sign(EndpointSecret, NoEvent)}

ForgedRequest(w, sig) ==
  /\ UNCHANGED deliveries
  /\ WebhookRoute(w, ForgedBody, sig)

Next ==
  \/ Tick
  \/ ResponseSent
  \/ \E w \in Workers, type \in EventTypes,
        id \in (1..MaxIntents) \cup ForeignIntents :
        StripeDeliver(w, type, id)
  \/ \E w \in Workers, sig \in ForgedSignatures : ForgedRequest(w, sig)
  \/ \E user \in BookingIds,
        booking_id \in BookingIds \cup {MissingBooking, NoBooking},
        amountHalf \in AmountsHalf, fault \in Faults :
        CreatePaymentIntentRoute(user, booking_id, amountHalf, fault)
  \/ \E payment_intent_id \in {NoIntent, 1, ForeignIntent},
        hasMethod \in BOOLEAN, outcome \in ProcessorOutcomes :
        ConfirmPaymentIntentRoute(payment_intent_id, hasMethod, outcome)
  \/ \E payment_intent_id \in {NoIntent, 1, ForeignIntent},
        outcome \in ProcessorOutcomes :
        VerifyStripePaymentRoute(payment_intent_id, outcome)
  \/ \E user \in Users, payment_intent_id \in 1..MaxIntents, fault \in Faults :
        GetConfirmationRoute(user, payment_intent_id, fault)
  \/ \E user \in Users, booking_id \in BookingIds \cup {MissingBooking},
        fault \in Faults :
        GetBookingStatusRoute(user, booking_id, fault)
  \/ \E w \in Workers, fails \in BOOLEAN : handlePaymentSuccess(w, fails)
  \/ \E w \in Workers, fails \in BOOLEAN : handlePaymentFailure(w, fails)
  \/ \E w \in Workers, fails \in BOOLEAN : handlePaymentCanceled(w, fails)

Spec == Init /\ [][Next]_vars

\* the users that send listing requests: the owner of the properties, an
\* admin, and a user who is neither
ListingUsers == {1, OwnerUser, AdminUser}

\* ratings sent, in tenths: none, 3, 4.7 and 6
RatingsTenths == {0, 30, 47, 60}

PropertiesNext ==
  \/ ResponseSent
  \/ \E user \in ListingUsers, id \in PropertyIds \cup {MissingProperty},
        body \in StatusBodies : PutProperty(user, id, body)
  \/ \E user \in ListingUsers, id \in PropertyIds \cup {MissingProperty},
        body \in StatusBodies : PatchPropertyStatus(user, id, body)
  \/ \E user \in ListingUsers, id \in PropertyIds \cup {MissingProperty},
        status \in {"approved", "rejected"} :
        PatchPropertyApproval(user, id, status)
  \/ \E user \in ListingUsers, id \in PropertyIds \cup {MissingProperty} :
        DeleteProperty(user, id)
  \/ \E r \in Requests, user \in ListingUsers, op \in {"approve", "reject"},
        id \in PropertyIds \cup {MissingProperty} :
        AdminDecisionStart(r, user, op, id)
  \/ \E r \in Requests : AdminDecisionDetails(r)
  \/ \E r \in Requests : AdminDecisionExecute(r)

\* the property routes, from the state in which the owner's properties wait
\* for approval
SpecProperties == Init /\ [][PropertiesNext]_vars

DecisionsNext ==
  \/ ResponseSent
  \/ \E r \in Requests, user \in ListingUsers, op \in {"approve", "reject"},
        id \in PropertyIds \cup {MissingProperty} :
        AdminDecisionStart(r, user, op, id)
  \/ \E r \in Requests : AdminDecisionDetails(r)
  \/ \E r \in Requests : AdminDecisionExecute(r)

\* the admin routes PUT /admin/properties/:id/approve and /reject alone
SpecDecisions == Init /\ [][DecisionsNext]_vars

\* the listing tables after an admin has approved property 1
InteractionsInit ==
  /\ PaymentInit
  /\ allProperties =
       [p \in PropertyIds |->
          IF p = 1
          THEN [NewProperty(OwnerUser) EXCEPT !.approval_status = "approved"]
          ELSE NewProperty(OwnerUser)]
  /\ propertyDetails =
       [p \in PropertyIds |->
          [NewPropertyDetails(OwnerUser) EXCEPT
             !.approval_status = "approved"]]
  /\ userInteractions = <<>>
  /\ rq = [r \in Requests |-> IdleRequest]

InteractionsNext ==
  \/ ResponseSent
  \/ \E r \in Requests, user \in ListingUsers,
        id \in PropertyIds \cup {MissingProperty} : FavoriteStart(r, user, id)
  \/ \E r \in Requests, user \in ListingUsers,
        id \in PropertyIds \cup {MissingProperty},
        tenths \in RatingsTenths : RatingStart(r, user, id, tenths)
  \/ \E r \in Requests, user \in ListingUsers, id \in PropertyIds :
        RatingDeleteStart(r, user, id)
  \/ \E r \in Requests : InteractionSelect(r)
  \/ \E r \in Requests : InteractionWrite(r)

\* the favorite and rating routes, from the state in which property 1 is
\* approved
SpecInteractions == InteractionsInit /\ [][InteractionsNext]_vars

(* ------------------------------ properties ----------------------------- *)
\* worker w takes a step of its webhook request
WorkerStep(w) == wk[w].pc # "idle" /\ wk'[w] # wk[w]

\* C1: idempotent webhook application. A delivery of an event that an earlier,
\* finished delivery has already applied changes no booking field and inserts
\* no notification, so two deliveries of one event leave the booking as one
\* delivery does and insert at most one notification.
IdempotentWebhook ==
  [][\A w \in Workers :
       (WorkerStep(w) /\ wk[w].ev \in appliedEvents)
         => (bookings' = bookings /\ notifications' = notifications)]_vars

\* C2: no regression from a terminal state. No step changes a confirmed
\* booking to failed or canceled, and no event for the stored intent moves a
\* failed or canceled booking to another status.
NoRegressionFromTerminal ==
  [][\A b \in BookingIds :
       /\ bookings[b].payment_status = "confirmed"
            => bookings'[b].payment_status = "confirmed"
       /\ (/\ bookings[b].payment_status \in {"failed", "canceled"}
           /\ bookings'[b].stripe_payment_intent_id =
                bookings[b].stripe_payment_intent_id)
            => bookings'[b].payment_status = bookings[b].payment_status]_vars

\* C3: stale-intent isolation. A step of a delivery whose intent id differs
\* from the intent id stored on the booking its metadata names changes no
\* booking and inserts no notification (checked for a booking that has a
\* stored intent id).
StaleIntentIsolation ==
  [][\A w \in Workers :
       (/\ WorkerStep(w)
        /\ wk[w].ev.booking_id \in BookingIds
        /\ bookings[wk[w].ev.booking_id].stripe_payment_intent_id # NoIntent
        /\ bookings[wk[w].ev.booking_id].stripe_payment_intent_id
             # wk[w].ev.id)
         => (bookings' = bookings /\ notifications' = notifications)]_vars

\* two deliveries carry conflicting outcomes for one booking
Conflicting(e1, e2) ==
  /\ e1.booking_id = e2.booking_id
  /\ e1.type # e2.type
  /\ "payment_intent.succeeded" \in {e1.type, e2.type}

\* C4: concurrent delivery safety. Of a succeeded delivery and a failed or
\* canceled delivery for the same booking that are in flight together, at
\* most one has applied its UPDATE; the other is a no-op.
ConcurrentDeliverySafety ==
  \A w1, w2 \in Workers :
    (/\ w1 # w2
     /\ wk[w1].pc # "idle"
     /\ wk[w2].pc # "idle"
     /\ Conflicting(wk[w1].ev, wk[w2].ev))
      => ~(wk[w1].applied /\ wk[w2].applied)

\* C5: signature gate. A webhook request whose signature does not verify is
\* answered 400 having issued no query and reached no handler, and a worker
\* is inside a handler only for a request whose signature verified.
SignatureGate ==
  /\ (response.route = "webhook" /\ ~response.sigValid)
       => (/\ response.status = 400
           /\ response.dbCalls = 0
           /\ response.handler = "none")
  /\ \A w \in Workers : wk[w].pc # "idle" => wk[w].sigValid

\* a forged request has been rejected
SignatureGateWitness ==
  /\ response.route = "webhook"
  /\ ~response.sigValid
  /\ response.status = 400

\* C6: webhook failure acknowledgment. A delivery whose UPDATE was rejected
\* by the store is answered non-2xx, and a 200 to a tracked event that names
\* a booking means its UPDATE was applied.
WebhookFailureAck ==
  (/\ response.route = "webhook"
   /\ response.handler \in TrackedTypes
   /\ response.body.booking_id # NoBooking)
    => /\ (response.storeFailed /\ response.dbCalls = 1)
            => response.status \notin 200..299
       /\ response.status \in 200..299 => response.applied

\* C7: eventual reconciliation. The processor stops redelivering an event at
\* its first 2xx, so once no delivery is in flight every event that names a
\* booking row and was answered 2xx has been applied.
EventualReconciliation ==
  (\A w \in Workers : wk[w].pc = "idle") => ackedEvents \subseteq appliedEvents

\* C8: retry path. For the renter's own booking in status failed, a
\* create-payment-intent that the store and the processor serve, with an
\* amount of at least one minor unit, answers 200 with a new intent; and when
\* the UPDATE of a succeeded event for such an intent runs, the booking is
\* confirmed and stores that intent id.
RetryPath ==
  /\ [](( /\ response.route = "create"
          /\ response.owned
          /\ response.statusBefore = "failed"
          /\ response.fault = "none"
          /\ MathRound(response.amountHalf) >= 1)
         => (/\ response.status = 200
             /\ response.payment_intent_id = Len(intents)
             /\ intents[Len(intents)].retry))
  /\ [][\A w \in Workers :
         (/\ wk[w].pc = "update"
          /\ wk[w].ev.type = "payment_intent.succeeded"
          /\ wk[w].ev.id \in 1..Len(intents)
          /\ intents[wk[w].ev.id].retry
          /\ wk'[w].applied)
           => LET b == wk[w].ev.booking_id
              IN /\ bookings'[b].payment_status = "confirmed"
                 /\ bookings'[b].stripe_payment_intent_id = wk[w].ev.id]_vars

\* a booking that failed, got a new intent and was confirmed with it
RetryPathWitness ==
  \E b \in BookingIds :
    /\ bookings[b].payment_status = "confirmed"
    /\ bookings[b].payment_failed_at # NULL
    /\ bookings[b].stripe_payment_intent_id \in 1..Len(intents)
    /\ intents[bookings[b].stripe_payment_intent_id].retry
    /\ intents[bookings[b].stripe_payment_intent_id].booking_id = b

\* C9: intent-creation eligibility. create-payment-intent answers 200 with a
\* new intent only for a booking whose payment status is unset or failed.
IntentCreationEligibility ==
  (response.route = "create" /\ response.status = 200)
    => response.statusBefore \in {"unset", "failed"}

\* C10: create-payment-intent never changes a booking. Whatever the request
\* and whether the processor call succeeds, fails or times out, the step that
\* answers it leaves every row of booking_requests as it was.
CreateLeavesBookings ==
  [][response'.route = "create" => bookings' = bookings]_vars

\* an intent has been created and returned
CreateLeavesBookingsWitness ==
  /\ response.route = "create"
  /\ response.status = 200
  /\ response.payment_intent_id = Len(intents)

\* C11: only webhook event application changes a booking. The steps that
\* answer confirm-payment-intent, verify-stripe-payment, GET confirmation and
\* GET booking status leave every booking row as it was; a step that changes
\* a row is the UPDATE of a webhook handler; and no step removes a row.
OnlyWebhookChangesBookings ==
  [][/\ response'.route \in {"confirm", "verify", "confirmation", "status"}
          => bookings' = bookings
     /\ bookings' # bookings
          => \E w \in Workers :
               /\ wk[w].pc = "update"
               /\ bookings' = UpdateBooking(wk[w].ev, now)
     /\ DOMAIN bookings' = DOMAIN bookings]_vars

\* confirm-payment-intent has reported success for an intent whose booking is
\* still unset
OnlyWebhookChangesBookingsWitness ==
  /\ response.route = "confirm"
  /\ response.status = 200
  /\ IntentBooking(1) \in BookingIds
  /\ bookings[IntentBooking(1)].payment_status = "unset"

\* C12: an untracked event is acknowledged and dropped. A verified event of
\* a type other than succeeded, payment_failed and canceled is answered 200
\* having issued no query, and never occupies a handler.
UntrackedEventDropped ==
  /\ (/\ response.route = "webhook"
      /\ response.sigValid
      /\ response.handler = "payment_intent.created")
       => (/\ response.status = 200
           /\ response.dbCalls = 0
           /\ ~response.applied)
  /\ \A w \in Workers :
       wk[w].pc # "idle" => wk[w].ev.type # "payment_intent.created"

\* a payment_intent.created event about a booking's intent has been answered
UntrackedEventDroppedWitness ==
  /\ response.route = "webhook"
  /\ response.sigValid
  /\ response.handler = "payment_intent.created"
  /\ response.body.booking_id \in BookingIds
  /\ response.status = 200

\* C13: an event without a booking id is acknowledged without action. A
\* verified succeeded, payment_failed or canceled event whose metadata has no
\* booking_id is answered 200 having issued no query, so it changes no
\* booking and inserts no notification, and never goes past the handler's
\* first check.
NoBookingIdAcknowledged ==
  /\ (/\ response.route = "webhook"
      /\ response.sigValid
      /\ response.handler \in {"payment_intent.succeeded",
                                "payment_intent.payment_failed",
                                "payment_intent.canceled"}
      /\ response.body.booking_id = NoBooking)
       => (/\ response.status = 200
           /\ response.dbCalls = 0
           /\ ~response.applied)
  /\ \A w \in Workers : wk[w].pc # "idle" => wk[w].ev.booking_id # NoBooking

\* a succeeded event of a foreign intent has been answered
NoBookingIdAcknowledgedWitness ==
  /\ response.route = "webhook"
  /\ response.sigValid
  /\ response.handler = "payment_intent.succeeded"
  /\ response.body.booking_id = NoBooking
  /\ response.status = 200

\* C14: confirm-payment-intent and the processor's status. The route reports
\* success exactly when the processor's status is succeeded; for another
\* status the response is not an error response and carries that status.
ConfirmNonSuccessIsNotError ==
  (response.route = "confirm" /\ response.outcome \in PaymentIntentStatuses)
    => /\ response.success <=> response.outcome = "succeeded"
       /\ response.outcome # "succeeded"
            => (/\ response.status \in 200..299
                /\ response.pstatus = response.outcome)

\* C15: gateway unavailable is distinguishable. When the processor call of
\* create-payment-intent fails because the API key is invalid or the
\* processor cannot be reached, the response carries STRIPE_API_KEY_ERROR and
\* 'Payment service temporarily unavailable', not the generic failure.
GatewayUnavailableCode ==
  (/\ response.route = "create"
   /\ response.stripeCalled
   /\ response.fault \in {"invalid_api_key", "unreachable"})
    => (/\ response.error = "STRIPE_API_KEY_ERROR"
        /\ response.message = "Payment service temporarily unavailable")

\* C16: uniform not-found. A create-payment-intent request that the store
\* serves for a booking id that is not the caller's booking, whether no row
\* has that id or the row is another user's, is answered 404 with the body
\* {error: 'Booking not found'} and without a processor call.
UniformNotFound ==
  (/\ response.route = "create"
   /\ ~response.owned
   /\ response.error \notin {"Missing required fields",
                              "Payment processing failed"})
    => (/\ response.status = 404
        /\ response.error = "Booking not found"
        /\ response.message = NoError
        /\ response.payment_intent_id = NoIntent
        /\ ~response.stripeCalled)

\* a request for another user's booking has been answered 404
UniformNotFoundWitness ==
  /\ response.route = "create"
  /\ response.status = 404
  /\ response.exists
  /\ ~response.owned

\* C17: amount validation. A create-payment-intent request that meets no
\* fault and whose amount is zero, negative or not an integer is answered
\* with a client error and creates no intent.
AmountValidation ==
  (/\ response.route = "create"
   /\ response.fault = "none"
   /\ (response.amountHalf <= 0 \/ response.amountHalf % 2 # 0))
    => (/\ response.status \in 400..499
        /\ response.payment_intent_id = NoIntent)

\* the error.message texts of the processor's exceptions
RawProcessorMessages ==
  {StripeErrorMessage(f) : f \in StripeFaults \cup {"none"}}
    \cup {"No such payment_intent"}

\* C18: no raw processor text. No response of create-payment-intent,
\* confirm-payment-intent or verify-stripe-payment carries the message of a
\* processor exception.
NoRawProcessorText ==
  response.route \in {"create", "confirm", "verify"}
    => response.message \notin RawProcessorMessages

\* the edges of the payment status: unset to submitted, submitted to a
\* terminal status, failed back to submitted
StatusEdges ==
  {<<"unset", "submitted">>, <<"submitted", "confirmed">>,
   <<"submitted", "failed">>, <<"submitted", "canceled">>,
   <<"failed", "submitted">>}

\* C19: payment status edges. Every booking's payment status is one of
\* unset, submitted, confirmed, failed, canceled, and every step that changes
\* it follows an edge of StatusEdges.
PaymentStatusEdges ==
  [][\A b \in BookingIds :
       /\ bookings'[b].payment_status \in
            {"unset", "submitted", "confirmed", "failed", "canceled"}
       /\ bookings'[b].payment_status # bookings[b].payment_status
            => <<bookings[b].payment_status, bookings'[b].payment_status>>
                 \in StatusEdges]_vars

\* C20: first application of a succeeded event. The UPDATE of a succeeded
\* event that was not applied before, for the intent the booking stores (or
\* for a booking that stores none), writes status confirmed, the event's
\* intent id, the confirmation timestamp and the event's amount.
SucceededEventWritesAmount ==
  [][\A w \in Workers :
       LET ev == wk[w].ev
           b == ev.booking_id
       IN (/\ wk[w].pc = "update"
           /\ ev.type = "payment_intent.succeeded"
           /\ wk'[w].applied
           /\ b \in BookingIds
           /\ ev \notin appliedEvents
           /\ bookings[b].stripe_payment_intent_id \in {NoIntent, ev.id})
            => (/\ bookings'[b].payment_status = "confirmed"
                /\ bookings'[b].stripe_payment_intent_id = ev.id
                /\ bookings'[b].payment_confirmed_at = now
                /\ bookings'[b].payment_amount =
                     [whole |-> ev.amount, cents |-> 0])]_vars

\* C21: one notification per transition. A step that inserts a notification
\* is the INSERT of a delivery whose UPDATE changed the booking's payment
\* status; it inserts exactly one row, addressed to the property owner for a
\* succeeded event and to the renter for a failed one.
NotificationPerTransition ==
  [][notifications' # notifications
       => \E w \in Workers :
            /\ wk[w].pc = "insert"
            /\ wk'[w].pc = "idle"
            /\ wk[w].changed
            /\ Len(notifications') = Len(notifications) + 1
            /\ notifications'[Len(notifications')].user_id =
                 IF wk[w].ev.type = "payment_intent.succeeded"
                 THEN bookings[wk[w].ev.booking_id].property_owner_id
                 ELSE bookings[wk[w].ev.booking_id].user_id]_vars

\* C22: a failed notification insert is not surfaced. A delivery whose UPDATE
\* was applied and whose INSERT INTO notifications was rejected is answered
\* 200, and the step of the INSERT leaves every booking as the UPDATE left it.
NotificationFailureAcked ==
  /\ []((/\ response.route = "webhook"
          /\ response.storeFailed
          /\ response.dbCalls = 3)
         => (response.status = 200 /\ response.applied))
  /\ [][\A w \in Workers :
         (wk[w].pc = "insert" /\ WorkerStep(w)) => bookings' = bookings]_vars

\* a succeeded delivery whose INSERT was rejected has been answered 200 and
\* the booking is confirmed, without a notification
NotificationFailureAckedWitness ==
  /\ response.route = "webhook"
  /\ response.storeFailed
  /\ response.dbCalls = 3
  /\ response.status = 200
  /\ bookings[response.body.booking_id].payment_status = "confirmed"
  /\ notifications = <<>>

\* C23: cross-booking independence. A step of a delivery that names booking
\* A leaves every other booking row as it was, and the steps that answer
\* the payment requests change no row, whatever other deliveries are in
\* flight.
CrossBookingIndependence ==
  [][/\ \A w \in Workers :
          WorkerStep(w)
            => \A b \in BookingIds \ {wk[w].ev.booking_id} :
                 bookings'[b] = bookings[b]
     /\ response'.route \in {"create", "confirm", "verify", "confirmation",
                              "status"}
          => bookings' = bookings]_vars

\* two deliveries for different bookings are in flight, one has run its
\* UPDATE, and the other's booking is still unset
CrossBookingIndependenceWitness ==
  \E w1, w2 \in Workers :
    /\ wk[w1].pc = "select"
    /\ wk[w2].pc = "update"
    /\ wk[w1].ev.booking_id # wk[w2].ev.booking_id
    /\ bookings[wk[w1].ev.booking_id].payment_status # "unset"
    /\ bookings[wk[w2].ev.booking_id].payment_status = "unset"

\* C29: authorization of the GET routes. GET confirmation answers 200 with
\* booking data only to the renter of a booking that stores the intent id,
\* and GET booking status only to the booking's renter or property owner;
\* any other caller gets no booking data and, when the store serves the
\* request, the 404 that a missing booking gets.
ReadAuthorization ==
  response.route \in {"confirmation", "status"}
    => /\ response.status = 200
            => (response.callerMay /\ response.booking # NoBooking)
       /\ ~response.callerMay
            => (/\ response.booking = NoBooking
                /\ response.payment = NoIntent
                /\ response.status \in {404, 500}
                /\ response.status = 404
                     => response.error =
                          IF response.route = "confirmation"
                          THEN "Payment confirmation not found"
                          ELSE "Booking not found")

\* GET confirmation has answered 404 to a user who is not the renter of the
\* booking that stores the intent id
ReadAuthorizationWitness ==
  /\ response.route = "confirmation"
  /\ response.status = 404
  /\ response.exists
  /\ ~response.callerMay

\* C30: a failed retrieve does not fail the request. When the processor
\* retrieval of a GET route throws, the response is 200 with the booking row
\* and a null processor part, and the step changes no booking.
RetrieveFailureTolerated ==
  /\ []((response.route \in {"confirmation", "status"}
           /\ response.retrieveThrew)
         => (/\ response.status = 200
             /\ response.booking # NoBooking
             /\ response.payment = NoIntent))
  /\ [][response'.route \in {"confirmation", "status"}
         => bookings' = bookings]_vars

\* GET booking status has answered 200 although the retrieve threw
RetrieveFailureToleratedWitness ==
  /\ response.route = "status"
  /\ response.retrieveThrew
  /\ response.status = 200
  /\ response.booking \in BookingIds

\* C24: approval_status is changed by admins only. A step that changes the
\* approval_status of a row of all_properties answers a request of a user
\* whose role is admin.
ApprovalOnlyByAdmin ==
  [][\A p \in PropertyIds :
       allProperties'[p].approval_status # allProperties[p].approval_status
         => response'.role = "admin"]_vars

\* C25: a property leaves pending at most once through the admin routes. An
\* admin approve or reject that answers 200 wrote a property that was
\* pending at the time of its write, and every other answer changed
\* nothing, also when two decisions on one property are in flight together.
PendingLeftOnce ==
  [][response'.route \in {"approve", "reject"}
       => IF response'.status = 200
          THEN allProperties[response'.id].approval_status = "pending"
          ELSE /\ allProperties' = allProperties
               /\ propertyDetails' = propertyDetails]_vars

\* C26: deleting, approving or rejecting property P affects only P. A step
\* that answers such a request leaves the all_properties row and the
\* property_details row of every other property as they were.
OnlyNamedPropertyAffected ==
  [][response'.route \in {"delete", "patch_approve", "patch_reject",
                           "approve", "reject"}
       => \A p \in PropertyIds \ {response'.id} :
            /\ allProperties'[p] = allProperties[p]
            /\ propertyDetails'[p] = propertyDetails[p]]_vars

\* C27: favorites. There is at most one favorite row per user and property,
\* and every successful toggle flips whether the user has the property as a
\* favorite, so two successive toggles restore the state before them.
FavoriteToggle ==
  /\ [](\A user \in ListingUsers, p \in PropertyIds :
          Cardinality(Matching(user, p, "favorite")) <= 1)
  /\ [][(response'.route = "favorite" /\ response'.status = 200)
         => (MatchingIn(userInteractions, response'.user, response'.id,
                        "favorite") = {})
              # (MatchingIn(userInteractions', response'.user,
                            response'.id, "favorite") = {})]_vars

\* C28: ratings. Every rating row has an integer score from 1 to 5, and
\* there is at most one rating row per user and property.
RatingRows ==
  /\ \A i \in 1..Len(userInteractions) :
       userInteractions[i].interaction_type = "rating"
         => userInteractions[i].rating_score \in 1..5
  /\ \A user \in ListingUsers, p \in PropertyIds :
       Cardinality(Matching(user, p, "rating")) <= 1

====
